---- MODULE Spec2Model ----
(***************************************************************************)
(* Model of the anypay events websocket server: the per-connection handler *)
(* (src/src/server.rs, handle_connection / handle_message), its writer     *)
(* task, the global session table, and the subscription registry with its  *)
(* publish fan-out.                                                        *)
(*                                                                         *)
(* crate::event_dispatcher and crate::session are not part of the sources  *)
(* at hand; only their call sites are.  The registry (subscribe,           *)
(* unsubscribe, publish) and Session::send are modelled from the design    *)
(* document: the registry keeps session identifiers per topic and resolves *)
(* them through the session table when it delivers.                        *)
(***************************************************************************)
EXTENDS Integers, Sequences, FiniteSets, TLC

\* ------------------------------------------------------------------ bounds
NumConns == 2       \* connections the listener accepts
MaxFrames == 2      \* inbound frames read, over all connections
MaxPublish == 1     \* publish calls made by the external event source

Conns == 1..NumConns
Kinds == {"invoice", "payment"}
Ids == {"42", "7"}
EventPayloads == <<"e1", "e2", "e3", "e4">>

\* ------------------------------------------------------------------ types
\* Subscription { sub_type, id }: the registry's key.
Topics == [sub_type : Kinds, id : Ids]

\* enum Message, tagged by "action".
Message ==
    [action : {"subscribe", "unsubscribe"}, sub_type : Kinds, id : Ids]
        \cup [action : {"fetch_invoice"}, id : Ids]
        \cup {[action |-> "create_invoice", amount |-> 100, currency |-> "USD",
               account_id |-> 1]}

\* What a client can put on the wire: a frame whose payload is the text of a
\* JSON object (a recognized request, or one with an unknown action tag), or a
\* frame whose payload is not UTF-8 text at all.
JsonBodies == Message \cup {[action |-> "bogus"]}
WireFrames ==
    {[utf8 |-> TRUE, json |-> j] : j \in JsonBodies}
        \cup {[utf8 |-> FALSE, json |-> [action |-> "bytes"]]}
NoFrame == [utf8 |-> FALSE, json |-> [action |-> "none"]]

\* msg.to_text(): Ok(text) for a UTF-8 payload, Err otherwise.
ToText(frame) == [ok |-> frame.utf8, text |-> frame.json]

\* serde_json::from_str::<Message>(text): Ok(message) iff the text is one of
\* the four tagged shapes.
FromStr(text) == [ok |-> text \in Message, message |-> text]

\* ------------------------------------------------------------- responses
Resp(status, message, data) == [status |-> status, message |-> message, data |-> data]
NoResponse == Resp("none", <<>>, "")
InvalidFormat == Resp("error", <<"Invalid message format">>, "")
Event(p) == Resp("event", <<>>, p)

\* A message on a channel, with its position in the channel's enqueue order.
Stamp(m, n) == [msg |-> m, seq |-> n]

\* The data service's three outcomes for get_invoice.
FetchOutcomes == {"found", "none", "error"}

\* handle_message, FetchInvoice arm: the response for each service outcome.
FetchResponseNoneAsSuccess(id, outcome) ==
    CASE outcome = "found" -> Resp("success", <<>>, id)
      [] outcome = "none" -> Resp("success", <<>>, "")
      [] outcome = "error" -> Resp("error", <<"Error fetching invoice:", "service">>, "")
FetchResponse(id, outcome) ==
    CASE outcome = "found" -> Resp("success", <<>>, id)
      [] outcome = "none" -> Resp("error", <<"Invoice not found">>, "")
      [] outcome = "error" -> Resp("error", <<"Error fetching invoice:", "service">>, "")

\* handle_message, Subscribe / Unsubscribe arms: the confirmation.  The match
\* has no arm for CreateInvoice: no response is built for it.
ResponseForUnsubscribeError(message) ==
    CASE message.action = "subscribe" ->
            Resp("success", <<"Subscribed to", message.sub_type, message.id>>, "")
      [] message.action = "unsubscribe" ->
            Resp("error", <<"Unsubscribed from", message.sub_type, message.id>>, "")
      [] OTHER -> NoResponse
ResponseFor(message) ==
    CASE message.action = "subscribe" ->
            Resp("success", <<"Subscribed to", message.sub_type, message.id>>, "")
      [] message.action = "unsubscribe" ->
            Resp("success", <<"Unsubscribed from", message.sub_type, message.id>>, "")
      [] OTHER -> NoResponse

TopicOf(message) == [sub_type |-> message.sub_type, id |-> message.id]

\* --------------------------------------------------------------- registry
\* EventDispatcher::subscribe / unsubscribe on the topic -> identifiers map.
RegistrySubscribe(reg, sid, topic) == [reg EXCEPT ![topic] = @ \cup {sid}]
RegistryUnsubscribe(reg, sid, topic) == [reg EXCEPT ![topic] = @ \ {sid}]

\* handle_message: the registry call each request makes.
DispatchNoUnsubscribe(reg, sid, message) ==
    IF message.action = "subscribe"
    THEN RegistrySubscribe(reg, sid, TopicOf(message))
    ELSE reg
DispatchNoSubscribe(reg, sid, message) ==
    IF message.action = "unsubscribe"
    THEN RegistryUnsubscribe(reg, sid, TopicOf(message))
    ELSE reg
DispatchOverwrites(reg, sid, message) ==
    CASE message.action = "subscribe" -> [reg EXCEPT ![TopicOf(message)] = {sid}]
      [] message.action = "unsubscribe" -> RegistryUnsubscribe(reg, sid, TopicOf(message))
      [] OTHER -> reg
DispatchUnsubscribeAll(reg, sid, message) ==
    CASE message.action = "subscribe" -> RegistrySubscribe(reg, sid, TopicOf(message))
      [] message.action = "unsubscribe" -> [t \in DOMAIN reg |-> reg[t] \ {sid}]
      [] OTHER -> reg
Dispatch(reg, sid, message) ==
    CASE message.action = "subscribe" -> RegistrySubscribe(reg, sid, TopicOf(message))
      [] message.action = "unsubscribe" -> RegistryUnsubscribe(reg, sid, TopicOf(message))
      [] OTHER -> reg

\* ---------------------------------------------------------- session table
TableInsertNothing(tbl, sid) == tbl
TableInsert(tbl, sid) == tbl \cup {sid}
TableRemoveNothing(tbl, sid) == tbl
TableRemove(tbl, sid) == tbl \ {sid}

\* ---------------------------------------------------------------- channel
\* The unbounded mpsc channel: send appends, receiver.next() takes the oldest.
ChannelPush(q, m) == Append(q, m)
ChannelNextNewest(q) == q[Len(q)]
ChannelNext(q) == Head(q)
ChannelRest(q) == Tail(q)

VARIABLES
    pc,             \* handler task of each connection
    sessions,       \* the global session table (identifiers present)
    subscriptions,  \* the registry: topic -> set of session identifiers
    chan,           \* each session's outbound channel
    wpc,            \* writer task of each connection
    nenq,           \* messages enqueued on each channel so far (history)
    nwr,            \* messages each writer wrote to the transport so far (history)
    wire,           \* position (in enqueue order) of the message each writer wrote last
    req,            \* the frame each handler read last and has not answered
    pending,        \* the response the handler is about to send
    nreq,           \* frames read per connection
    nresp,          \* responses enqueued per connection by its own handler
    inserts,        \* session-table insertions per identifier
    removes,        \* session-table removals per identifier
    wanted,         \* topics each session subscribed to and did not leave (history)
    subsSince,      \* subscribe calls per session and topic since the session was
                    \* last taken out of the topic's set (history)
    svc,            \* what the data service answered the request in hand
    npub,           \* publish calls made
    lastPublish     \* record of the last publish call (history)

vars == <<pc, sessions, subscriptions, chan, wpc, nenq, nwr, wire, req,
          pending, nreq, nresp, inserts, removes, wanted, subsSince, svc, npub,
          lastPublish>>

NoPublish == [topic |-> [sub_type |-> "", id |-> ""], delivered |-> {},
              dropped |-> {}, closed |-> {}, result |-> "none"]

RECURSIVE Sum(_, _)
Sum(f, S) == IF S = {} THEN 0
             ELSE LET x == CHOOSE y \in S : TRUE IN f[x] + Sum(f, S \ {x})

FramesRead == Sum(nreq, Conns)

\* The channel's receiving half exists while the writer task runs.
ReceiverOpenAfterFailure(c) == wpc[c] \in {"running", "failed"}
ReceiverOpen(c) == wpc[c] = "running"

\* Holders of a sending handle of connection c's channel: the handler's own
\* `session` value until the handler returns, and the session table's clone.
\* The clone passed to subscribe is dropped once its identifier is recorded.
SenderHandlesKeptByRegistry(c) ==
    (IF pc[c] \in {"connected", "fetching", "responding", "closing"}
     THEN {"handler"} ELSE {})
        \cup (IF c \in sessions THEN {"table"} ELSE {})
        \cup (IF \E t \in Topics : c \in subscriptions[t] THEN {"registry"} ELSE {})
SenderHandles(c) ==
    (IF pc[c] \in {"connected", "fetching", "responding", "closing"}
     THEN {"handler"} ELSE {})
        \cup (IF c \in sessions THEN {"table"} ELSE {})

\* Session::send: fails iff the receiving half has been dropped.
SendOk(c) == ReceiverOpen(c)

\* A session the registry can deliver to: present in the table, channel open.
Live(c) == c \in sessions /\ SendOk(c)

Init ==
    /\ pc = [c \in Conns |-> "idle"]
    /\ sessions = {}
    /\ subscriptions = [t \in Topics |-> {}]
    /\ chan = [c \in Conns |-> <<>>]
    /\ wpc = [c \in Conns |-> "none"]
    /\ nenq = [c \in Conns |-> 0]
    /\ nwr = [c \in Conns |-> 0]
    /\ wire = [c \in Conns |-> 0]
    /\ req = [c \in Conns |-> NoFrame]
    /\ pending = [c \in Conns |-> NoResponse]
    /\ nreq = [c \in Conns |-> 0]
    /\ nresp = [c \in Conns |-> 0]
    /\ inserts = [c \in Conns |-> 0]
    /\ removes = [c \in Conns |-> 0]
    /\ wanted = [c \in Conns |-> {}]
    /\ subsSince = [c \in Conns |-> [t \in Topics |-> 0]]
    /\ svc = [c \in Conns |-> "idle"]
    /\ npub = 0
    /\ lastPublish = NoPublish

\* ---------------------------------------------------------------- handler
\* handle_connection, lines 99-116: the handshake succeeds, the channel and
\* the session are created, the session is stored and the writer is spawned.
Accept(c) ==
    /\ pc[c] = "idle"
    /\ pc' = [pc EXCEPT ![c] = "connected"]
    /\ sessions' = TableInsert(sessions, c)
    /\ inserts' = [inserts EXCEPT ![c] = @ + 1]
    /\ wpc' = [wpc EXCEPT ![c] = "running"]
    /\ UNCHANGED <<subsSince, svc, subscriptions, chan, nenq, nwr, wire, req, pending,
                   nreq, nresp, removes, wanted, npub, lastPublish>>

\* handle_connection, line 99: accept_async fails and `?` returns the error
\* before any session exists.
HandshakeFail(c) ==
    /\ pc[c] = "idle"
    /\ pc' = [pc EXCEPT ![c] = "rejected"]
    /\ UNCHANGED <<subsSince, svc, sessions, subscriptions, chan, wpc, nenq, nwr, wire,
                   req, pending, nreq, nresp, inserts, removes, wanted, npub,
                   lastPublish>>

\* handle_connection, line 119: the loop polls ws_receiver.next() only between
\* two iterations, when the previous request has been answered.
CanReadWhileBusy(c) == pc[c] \in {"connected", "fetching", "responding"}
CanRead(c) == pc[c] = "connected"

\* handle_connection, lines 119-136, with handle_message up to its first
\* suspension: one frame is read and dispatched.
Receive(c, frame) ==
    /\ CanRead(c)
    /\ FramesRead < MaxFrames
    /\ nreq' = [nreq EXCEPT ![c] = @ + 1]
    /\ req' = [req EXCEPT ![c] = frame]
    /\ LET t == ToText(frame)
           d == FromStr(t.text)
       IN  IF ~t.ok
           THEN \* line 122: a non-text payload is skipped, the loop reads on
                /\ UNCHANGED <<pc, pending, subscriptions, wanted, subsSince>>
           ELSE IF ~d.ok
           THEN \* lines 132-135
                /\ pending' = [pending EXCEPT ![c] = InvalidFormat]
                /\ pc' = [pc EXCEPT ![c] = "responding"]
                /\ UNCHANGED <<subscriptions, wanted, subsSince>>
           ELSE IF d.message.action = "fetch_invoice"
           THEN \* line 75: suspended on the data service
                /\ pc' = [pc EXCEPT ![c] = "fetching"]
                /\ UNCHANGED <<pending, subscriptions, wanted, subsSince>>
           ELSE IF d.message.action \in {"subscribe", "unsubscribe"}
           THEN \* lines 60-73
                /\ subscriptions' = Dispatch(subscriptions, c, d.message)
                /\ wanted' = [wanted EXCEPT ![c] =
                                IF d.message.action = "subscribe"
                                THEN @ \cup {TopicOf(d.message)}
                                ELSE @ \ {TopicOf(d.message)}]
                /\ subsSince' = [subsSince EXCEPT ![c][TopicOf(d.message)] =
                                   IF d.message.action = "subscribe" THEN @ + 1 ELSE 0]
                /\ pending' = [pending EXCEPT ![c] = ResponseFor(d.message)]
                /\ pc' = [pc EXCEPT ![c] = "responding"]
           ELSE \* create_invoice: decoded, but no arm of the match handles it
                /\ UNCHANGED <<pc, pending, subscriptions, wanted, subsSince>>
    /\ UNCHANGED <<svc, sessions, chan, wpc, nenq, nwr, wire, nresp, inserts,
                   removes, npub, lastPublish>>

\* handle_message, lines 75-88: the data service answers.
FetchReturn(c, outcome) ==
    /\ pc[c] = "fetching"
    /\ svc' = [svc EXCEPT ![c] = outcome]
    /\ pending' = [pending EXCEPT ![c] = FetchResponse(req[c].json.id, outcome)]
    /\ pc' = [pc EXCEPT ![c] = "responding"]
    /\ UNCHANGED <<subsSince, sessions, subscriptions, chan, wpc, nenq, nwr, wire,
                   req, nreq, nresp, inserts, removes, wanted, npub, lastPublish>>

\* handle_connection, lines 138-141: the response goes to the session's own
\* channel; a failed send leaves the loop.
Respond(c) ==
    /\ pc[c] = "responding"
    /\ IF SendOk(c)
       THEN /\ chan' = [chan EXCEPT ![c] = ChannelPush(@, Stamp(pending[c], nenq[c] + 1))]
            /\ nenq' = [nenq EXCEPT ![c] = @ + 1]
            /\ nresp' = [nresp EXCEPT ![c] = @ + 1]
            /\ pc' = [pc EXCEPT ![c] = "connected"]
       ELSE /\ pc' = [pc EXCEPT ![c] = "closing"]
            /\ UNCHANGED <<chan, nenq, nresp>>
    /\ pending' = [pending EXCEPT ![c] = NoResponse]
    /\ req' = [req EXCEPT ![c] = NoFrame]
    /\ svc' = [svc EXCEPT ![c] = "idle"]
    /\ UNCHANGED <<subsSince, sessions, subscriptions, wpc, nwr, wire, nreq, inserts,
                   removes, wanted, npub, lastPublish>>

\* handle_connection, line 119: the stream ends (the peer closed) and the
\* loop is left.
PeerClose(c) ==
    /\ pc[c] = "connected"
    /\ pc' = [pc EXCEPT ![c] = "closing"]
    /\ UNCHANGED <<subsSince, svc, sessions, subscriptions, chan, wpc, nenq, nwr, wire, req,
                   pending, nreq, nresp, inserts, removes, wanted, npub, lastPublish>>

\* handle_connection, lines 144-147: a read error leaves the loop.
ReadError(c) ==
    /\ pc[c] = "connected"
    /\ pc' = [pc EXCEPT ![c] = "closing"]
    /\ UNCHANGED <<subsSince, svc, sessions, subscriptions, chan, wpc, nenq, nwr, wire, req,
                   pending, nreq, nresp, inserts, removes, wanted, npub, lastPublish>>

\* handle_connection, lines 151-155: the session leaves the table and the
\* handler returns, dropping its own handle.
Cleanup(c) ==
    /\ pc[c] = "closing"
    /\ sessions' = TableRemove(sessions, c)
    /\ removes' = [removes EXCEPT ![c] = @ + 1]
    /\ wanted' = [wanted EXCEPT ![c] = {}]
    /\ pc' = [pc EXCEPT ![c] = "closed"]
    /\ UNCHANGED <<subsSince, svc, subscriptions, chan, wpc, nenq, nwr, wire, req,
                   pending, nreq, nresp, inserts, npub, lastPublish>>

\* ----------------------------------------------------------------- writer
\* lines 110-115: take the next message and write it; a failed write ends the
\* task, which drops the receiving half and what it still held.
WriterWrite(c, ok) ==
    /\ wpc[c] = "running"
    /\ chan[c] # <<>>
    /\ IF ok
       THEN /\ wire' = [wire EXCEPT ![c] = ChannelNext(chan[c]).seq]
            /\ nwr' = [nwr EXCEPT ![c] = @ + 1]
            /\ chan' = [chan EXCEPT ![c] = ChannelRest(@)]
            /\ UNCHANGED wpc
       ELSE /\ wpc' = [wpc EXCEPT ![c] = "failed"]
            /\ chan' = [chan EXCEPT ![c] = <<>>]
            /\ UNCHANGED <<wire, nwr>>
    /\ UNCHANGED <<subsSince, svc, pc, sessions, subscriptions, nenq, req, pending, nreq, nresp,
                   inserts, removes, wanted, npub, lastPublish>>

\* line 110: receiver.next() yields None once the channel is empty and every
\* sending handle is gone.
WriterEnd(c) ==
    /\ wpc[c] = "running"
    /\ chan[c] = <<>>
    /\ SenderHandles(c) = {}
    /\ wpc' = [wpc EXCEPT ![c] = "done"]
    /\ UNCHANGED <<subsSince, svc, pc, sessions, subscriptions, chan, nenq, nwr, wire,
                   req, pending, nreq, nresp, inserts, removes, wanted, npub,
                   lastPublish>>

\* --------------------------------------------------------------- publish
\* EventDispatcher::publish: every identifier under the topic is resolved
\* through the session table and sent the payload; one that cannot be
\* delivered to is dropped from the topic's set.
Recipients(reg, topic) == {c \in reg[topic] : Live(c)}

Publish(topic) ==
    /\ npub < MaxPublish
    /\ npub' = npub + 1
    /\ LET p == EventPayloads[npub + 1]
           to == Recipients(subscriptions, topic)
       IN  /\ chan' = [c \in Conns |->
                          IF c \in to
                          THEN ChannelPush(chan[c], Stamp(Event(p), nenq[c] + 1))
                          ELSE chan[c]]
           /\ nenq' = [c \in Conns |-> IF c \in to THEN nenq[c] + 1 ELSE nenq[c]]
           /\ subscriptions' = [subscriptions EXCEPT ![topic] = to]
           /\ subsSince' = [c \in Conns |->
                               IF c \in subscriptions[topic] \ to
                               THEN [subsSince[c] EXCEPT ![topic] = 0]
                               ELSE subsSince[c]]
           /\ lastPublish' =
                 [topic |-> topic,
                  delivered |-> to,
                  dropped |-> subscriptions[topic] \ to,
                  closed |-> {c \in Conns : pc[c] = "closed"},
                  result |-> "ok"]
    /\ UNCHANGED <<svc, pc, sessions, wpc, nwr, wire, req, pending, nreq,
                   nresp, inserts, removes, wanted>>

\* ------------------------------------------------------------------ system
\* AnypayEventsServer::run: one handler task per accepted stream, all running
\* concurrently with their writers and with the event source.
Next ==
    \/ \E c \in Conns : Accept(c)
    \/ \E c \in Conns : HandshakeFail(c)
    \/ \E c \in Conns, f \in WireFrames : Receive(c, f)
    \/ \E c \in Conns, o \in FetchOutcomes : FetchReturn(c, o)
    \/ \E c \in Conns : Respond(c)
    \/ \E c \in Conns : PeerClose(c)
    \/ \E c \in Conns : ReadError(c)
    \/ \E c \in Conns : Cleanup(c)
    \/ \E c \in Conns, ok \in BOOLEAN : WriterWrite(c, ok)
    \/ \E c \in Conns : WriterEnd(c)
    \/ \E t \in Topics : Publish(t)

Spec == Init /\ [][Next]_vars

\* The tasks are scheduled fairly: a handler that can clean up, answer or
\* resume from the data service does so, and a writer that can take a message
\* or see its channel closed does so.  Nothing obliges a client to send a
\* frame or to close, nor the event source to publish.
FairSpec ==
    /\ Spec
    /\ \A c \in Conns :
          /\ WF_vars(Cleanup(c))
          /\ WF_vars(Respond(c))
          /\ WF_vars(\E o \in FetchOutcomes : FetchReturn(c, o))
          /\ WF_vars(\E ok \in BOOLEAN : WriterWrite(c, ok))
          /\ WF_vars(WriterEnd(c))

\* ------------------------------------------------------------------ claims
InLoop == {"connected", "fetching", "responding"}
Registered(c) == \E t \in Topics : c \in subscriptions[t]
Decodable(frame) == ToText(frame).ok /\ FromStr(ToText(frame).text).ok

\* C1: once a handler is Closed, its session has been removed exactly once
\* from the session table and is in no topic's subscriber set.
C1_ClosedIsDeregistered ==
    \A c \in Conns :
        pc[c] = "closed" => /\ c \notin sessions
                            /\ removes[c] = 1
                            /\ ~Registered(c)

\* C2: the session table holds an identifier exactly while its connection is
\* accepted and its handler has not completed cleanup; every identifier is
\* inserted at most once, at accept, and removed at most once, at cleanup.
C2_TableIffAcceptedNotCleaned ==
    \A c \in Conns :
        /\ c \in sessions <=> pc[c] \in InLoop \cup {"closing"}
        /\ inserts[c] = (IF pc[c] \in {"idle", "rejected"} THEN 0 ELSE 1)
        /\ removes[c] = (IF pc[c] = "closed" THEN 1 ELSE 0)

C2_Witness ==
    \E c, d \in Conns :
        /\ c # d
        /\ pc[c] = "closed" /\ inserts[c] = 1 /\ removes[c] = 1
        /\ pc[d] \in InLoop /\ d \in sessions

C4_RegistryIffSubscribed ==
    \A c \in Conns, t \in Topics : c \in subscriptions[t] <=> t \in wanted[c]

\* C5 as stated: publish enqueues the payload on every session subscribed to
\* the topic at the time of the call, and on no other session.
C5_PublishReachesEverySubscriber ==
    [][npub' = npub + 1 =>
          \A c \in Conns :
              lastPublish'.topic \in wanted[c] <=> chan'[c] # chan[c]]_vars

\* C5 as amended: publish enqueues the payload, once, on every session that
\* is subscribed to the topic at the time of the call and is live (in the
\* session table, its channel's receiving half open), and on no other
\* session: none subscribed only to another kind or id, none that has
\* unsubscribed.
C5_PublishReachesLiveSubscribers ==
    [][npub' = npub + 1 =>
          \A c \in Conns :
              chan'[c] =
                  IF lastPublish'.topic \in wanted[c] /\ Live(c)
                  THEN Append(chan[c], Stamp(Event(EventPayloads[npub']), nenq[c] + 1))
                  ELSE chan[c]]_vars

C5_Witness ==
    \E c, d \in Conns :
        /\ c \in lastPublish.delivered
        /\ d \notin lastPublish.delivered
        /\ Live(d)
        /\ lastPublish.topic \notin wanted[d]
        /\ \E t \in wanted[d] :
              t.sub_type # lastPublish.topic.sub_type \/ t.id # lastPublish.topic.id

\* C6: between two reads, every frame a connected handler has read has put
\* exactly one response on its own channel.
C6_OneResponsePerFrame ==
    \A c \in Conns : pc[c] = "connected" => nresp[c] = nreq[c]

\* C7: reading a frame that does not decode into a recognized request makes
\* the handler answer "Invalid message format"; it does not leave the loop.
C7_UndecodableIsAnswered ==
    [][\A c \in Conns :
          (nreq'[c] = nreq[c] + 1 /\ ~Decodable(req'[c])) =>
              pc'[c] = "responding" /\ pending'[c] = InvalidFormat]_vars

\* C8: while its writes succeed, a writer writes the messages of its channel
\* in the order they were enqueued: the k-th write is the k-th message
\* enqueued, and the channel holds exactly the later ones, in order.
C8_WriterFifo ==
    \A c \in Conns :
        /\ wire[c] = nwr[c]
        /\ wpc[c] = "running" =>
              /\ Len(chan[c]) = nenq[c] - nwr[c]
              /\ \A i \in 1..Len(chan[c]) : chan[c][i].seq = nwr[c] + i

C8_Witness ==
    \E c \in Conns :
        /\ wpc[c] = "running"
        /\ nwr[c] >= 1
        /\ Len(chan[c]) >= 2
        /\ chan[c][1].msg # chan[c][2].msg

C10_WriterFailureClosesHandler ==
    \A c \in Conns :
        (wpc[c] = "failed" /\ pc[c] = "connected") ~> (pc[c] = "closed")

\* ------------------------------------------------------------ C11 .. C20
ReadsFrame(c) == nreq'[c] = nreq[c] + 1
IsSubscribe(frame) == Decodable(frame) /\ frame.json.action = "subscribe"
IsUnsubscribe(frame) == Decodable(frame) /\ frame.json.action = "unsubscribe"
IsFetch(frame) == Decodable(frame) /\ frame.json.action = "fetch_invoice"
IsCreate(frame) == Decodable(frame) /\ frame.json.action = "create_invoice"
Subscribed(t) == Resp("success", <<"Subscribed to", t.sub_type, t.id>>, "")
Unsubscribed(t) == Resp("success", <<"Unsubscribed from", t.sub_type, t.id>>, "")

\* C11: subscribing a session already in the topic's set leaves the registry
\* as it is, with the session in the set; unsubscribing a session that is
\* not in the set leaves the registry as it is and raises no error; every
\* subscribe and every unsubscribe is answered with status "success".
C11_SubscribeUnsubscribeIdempotent ==
    [][\A c \in Conns :
          (ReadsFrame(c) /\ (IsSubscribe(req'[c]) \/ IsUnsubscribe(req'[c]))) =>
              LET t == TopicOf(req'[c].json) IN
              /\ pc'[c] = "responding"
              /\ pending'[c].status = "success"
              /\ IsSubscribe(req'[c]) =>
                    /\ c \in subscriptions'[t]
                    /\ c \in subscriptions[t] => subscriptions' = subscriptions
              /\ IsUnsubscribe(req'[c]) =>
                    /\ c \notin subscriptions'[t]
                    /\ c \notin subscriptions[t] => subscriptions' = subscriptions]_vars

\* A second subscribe to the topic whose first confirmation is still queued.
C11_Witness ==
    \E c \in Conns :
        /\ pc[c] = "responding"
        /\ IsSubscribe(req[c])
        /\ nreq[c] = 2
        /\ Len(chan[c]) >= 1
        /\ chan[c][1].msg = Subscribed(TopicOf(req[c].json))
        /\ pending[c] = Subscribed(TopicOf(req[c].json))
        /\ c \in subscriptions[TopicOf(req[c].json)]

C14_FetchResponseFollowsService ==
    [][\A c \in Conns :
          /\ (pc[c] = "fetching" /\ pc'[c] # "fetching") =>
                /\ pc'[c] = "responding"
                /\ svc'[c] \in FetchOutcomes
                /\ svc'[c] = "found" =>
                      /\ pending'[c].status = "success"
                      /\ pending'[c].data = req[c].json.id
                /\ svc'[c] = "none" =>
                      pending'[c] = Resp("error", <<"Invoice not found">>, "")
                /\ svc'[c] = "error" =>
                      /\ pending'[c].status = "error"
                      /\ pending'[c].message = <<"Error fetching invoice:", "service">>
                /\ c \in sessions'
                /\ subscriptions' = subscriptions
          /\ (pc[c] = "responding" /\ IsFetch(req[c]) /\ pc'[c] # "responding") =>
                /\ c \in sessions'
                /\ subscriptions' = subscriptions
                /\ SendOk(c) =>
                      /\ pc'[c] = "connected"
                      /\ chan'[c] = Append(chan[c], Stamp(pending[c], nenq[c] + 1))]_vars

\* The three outcomes have each been answered, one of them on the wire side
\* of a handler that is connected again.
C14_Witness ==
    \E c \in Conns :
        /\ pc[c] = "connected"
        /\ nreq[c] = 1 /\ nresp[c] = 1
        /\ Len(chan[c]) = 1
        /\ chan[c][1].msg = Resp("error", <<"Invoice not found">>, "")
        /\ c \in sessions

\* C15: a publish to a topic with several subscribers, one of which cannot be
\* sent to (its channel's receiver is gone), still enqueues the payload on
\* every subscriber that is in the table with its receiver running, reports
\* no error, and takes the dead session out of the topic's set.
C15_PublishIndependentPerSubscriber ==
    [][npub' = npub + 1 =>
          /\ lastPublish'.result = "ok"
          /\ \A c \in subscriptions[lastPublish'.topic] :
                IF c \in sessions /\ wpc[c] = "running"
                THEN /\ chan'[c] = Append(chan[c],
                                          Stamp(Event(EventPayloads[npub']), nenq[c] + 1))
                     /\ c \in subscriptions'[lastPublish'.topic]
                ELSE /\ chan'[c] = chan[c]
                     /\ c \notin subscriptions'[lastPublish'.topic]]_vars

\* One subscriber was delivered to while another, still in the table, had a
\* failed writer and was dropped.
C15_Witness ==
    /\ lastPublish.result = "ok"
    /\ lastPublish.delivered # {}
    /\ \E d \in lastPublish.dropped :
          /\ wpc[d] = "failed"
          /\ d \in sessions
          /\ d \notin subscriptions[lastPublish.topic]

C18_SubscribedBeforeConfirmed ==
    [][\A c \in Conns :
          /\ (nresp'[c] = nresp[c] + 1 /\ IsSubscribe(req[c])) =>
                /\ pending[c] = Subscribed(TopicOf(req[c].json))
                /\ c \in subscriptions[TopicOf(req[c].json)]
                /\ c \in subscriptions'[TopicOf(req[c].json)]
          /\ (/\ npub' = npub + 1
              /\ lastPublish'.topic \in wanted[c]
              /\ pc[c] \in InLoop
              /\ wpc[c] = "running"
              /\ ~(pc[c] = "responding" /\ pending[c] = Subscribed(lastPublish'.topic))) =>
                /\ chan'[c] = Append(chan[c],
                                     Stamp(Event(EventPayloads[npub']), nenq[c] + 1))
                /\ \A i \in 1..Len(chan[c]) : chan[c][i].seq < nenq[c] + 1]_vars

\* The confirmation and, behind it, the event of the confirmed topic.
C18_Witness ==
    \E c \in Conns :
        /\ Len(chan[c]) = 2
        /\ chan[c][1].msg = Subscribed(lastPublish.topic)
        /\ chan[c][2].msg.status = "event"
        /\ chan[c][1].seq < chan[c][2].seq

\* C19: a handler has one request in hand at a time: while a request waits
\* on the data service or its response is not yet enqueued, the handler reads
\* no frame; a frame is read only with no response outstanding, and each
\* response is enqueued behind the earlier ones.
C19_OneRequestAtATime ==
    [][\A c \in Conns :
          /\ pc[c] \in {"fetching", "responding"} => nreq'[c] = nreq[c]
          /\ ReadsFrame(c) => pc[c] = "connected" /\ pending[c] = NoResponse
          /\ nresp'[c] = nresp[c] + 1 =>
                /\ pc[c] = "responding"
                /\ pc'[c] = "connected"
                /\ chan'[c] = Append(chan[c], Stamp(pending[c], nenq[c] + 1))]_vars

\* The request after a fetch is in hand, the fetch's response queued first.
C19_Witness ==
    \E c \in Conns :
        /\ nreq[c] = 2 /\ nresp[c] = 1
        /\ pc[c] = "responding"
        /\ IsSubscribe(req[c])
        /\ Len(chan[c]) = 1
        /\ chan[c][1].msg = Resp("error", <<"Invoice not found">>, "")

\* C20: reading and answering a fetch_invoice or an undecodable frame leaves
\* the registry and the session table as they are; a subscribe or
\* unsubscribe of session c for topic t leaves the table as it is and, in
\* the registry, changes at most c's membership in t.
C20_RequestFrame ==
    [][\A c \in Conns :
          /\ ReadsFrame(c) =>
                /\ sessions' = sessions
                /\ (IsFetch(req'[c]) \/ ~Decodable(req'[c])) =>
                      subscriptions' = subscriptions
                /\ (IsSubscribe(req'[c]) \/ IsUnsubscribe(req'[c])) =>
                      \A t \in Topics, d \in Conns :
                          (t # TopicOf(req'[c].json) \/ d # c) =>
                              (d \in subscriptions'[t] <=> d \in subscriptions[t])
          /\ (pc[c] \in {"fetching", "responding"} /\ pc'[c] # pc[c]) =>
                /\ sessions' = sessions
                /\ subscriptions' = subscriptions]_vars

\* A session listed under one topic has unsubscribed from another.
C20_Witness ==
    \E c \in Conns, t \in Topics :
        /\ pc[c] = "responding"
        /\ IsUnsubscribe(req[c])
        /\ t # TopicOf(req[c].json)
        /\ c \in subscriptions[t]
        /\ c \in sessions

====
